---- MODULE Spec2Model ----
(***************************************************************************)
(* RascalDB: a log-structured key-value store with an in-memory hash map   *)
(* index.  The model follows the sources: the record codec and the segment *)
(* (encode, decode, recordLen, openSegment, read, write, loadIndex, close),*)
(* the trunk (readSegmentNames, writeSegmentNames) and the database (Open, *)
(* Close, run, Set, Get).                                                  *)
(*                                                                         *)
(* Files are sequences of bytes.  A byte is a natural number below 256.    *)
(* Offsets are 0-based as in the code; sequences are 1-based, so the byte  *)
(* at offset o of a file f is f[o+1].                                      *)
(***************************************************************************)
EXTENDS Integers, Sequences, FiniteSets, TLC

\* ------------------------------------------------------------------------
\* Bounds of the model.

\* Set calls started over the whole run.
MaxSets == 2
\* Open calls over the whole run (sessions on the one directory).
MaxOpens == 2
\* Injected failures of fw.Write and fw.Sync over the whole run.
MaxFaults == 1

\* The callers of Set: goroutines of the program that uses the database.
Clients == {"c1", "c2"}

\* Keys: the empty key, an ordinary key, and a key made of the delimiter.
KeyEmpty == <<>>
KeyA == <<1>>
KeyNul == <<0>>
Keys == {KeyEmpty, KeyA, KeyNul}
\* The keys the record format allows: they hold no 0x00 byte.
PlainKeys == {k \in Keys : \A i \in 1..Len(k) : k[i] # 0}

\* Values: the empty value and a one-byte value.
ValEmpty == <<>>
ValB == <<2>>
Values == {ValEmpty, ValB}

\* The key-value pairs the callers of Set put.
Puts == {<<KeyA, ValEmpty>>, <<KeyA, ValB>>, <<KeyNul, ValB>>}

\* ------------------------------------------------------------------------
\* Record codec.

recordLenSize == 4
kvDelimeter == 0

\* A record length that leaves out the delimiter byte.
recordLenNoDelimeter(key, value) == recordLenSize + Len(key) + Len(value)

\* recordLen: uint32 arithmetic in the code.  The sum wraps at 2^32 there; the
\* records of the model are a few bytes long, far from the wrap, and 2^32 is
\* beyond the integers of the model checker, so no reduction is written.
recordLen(key, value) == recordLenSize + Len(key) + 1 + Len(value)

\* binary.LittleEndian.PutUint32
PutUint32(n) ==
  << n % 256, (n \div 256) % 256, (n \div 65536) % 256, (n \div 16777216) % 256 >>

\* binary.LittleEndian.Uint32 of a 4-byte buffer
Uint32(b) == b[1] + 256 * b[2] + 65536 * b[3] + 16777216 * b[4]

encode(key, value) ==
  PutUint32(recordLen(key, value)) \o key \o <<kvDelimeter>> \o value

\* The 0-based position of the last c in b, or -1.
LastIndexByte(b, c) ==
  IF \E i \in 1..Len(b) : b[i] = c
  THEN (CHOOSE i \in 1..Len(b) : b[i] = c /\ \A j \in (i+1)..Len(b) : b[j] # c) - 1
  ELSE -1

\* bytes.IndexByte: the 0-based position of the first c in b, or -1.
IndexByte(b, c) ==
  IF \E i \in 1..Len(b) : b[i] = c
  THEN (CHOOSE i \in 1..Len(b) : b[i] = c /\ \A j \in 1..(i-1) : b[j] # c) - 1
  ELSE -1

\* decode of a buffer of at least recordLenSize bytes.  isnil tells a nil value
\* (no delimiter found) from an empty one.
decode(b) ==
  LET body == SubSeq(b, recordLenSize + 1, Len(b))
      i == IndexByte(body, kvDelimeter)
  IN IF i = -1
     THEN [key |-> <<>>, value |-> <<>>, isnil |-> TRUE]
     ELSE [key |-> SubSeq(body, 1, i),
           value |-> SubSeq(body, i + 2, Len(body)),
           isnil |-> FALSE]

\* ------------------------------------------------------------------------
\* Files.

Min(a, b) == IF a < b THEN a ELSE b
Max(a, b) == IF a < b THEN b ELSE a

\* os.File.ReadAt(buf of n bytes, off): the bytes read and io.EOF when fewer
\* than n bytes are available.  A zero-length read never fails.
ReadAt(f, n, off) ==
  [data |-> SubSeq(f, off + 1, Min(off + n, Len(f))),
   err |-> IF n > 0 /\ off + n > Len(f) THEN "EOF" ELSE "nil"]

\* os.File.Write of buffer b through a handle at file position pos.  The handle
\* was opened without O_APPEND, so the bytes are placed at pos, over whatever
\* the file holds there, and the file grows when they reach past its end.
WriteAtPos(f, pos, b) ==
  LET pad == [i \in 1..(pos - Len(f)) |-> 0]
      head == IF pos <= Len(f) THEN SubSeq(f, 1, pos) ELSE f \o pad
  IN head \o b \o SubSeq(f, pos + Len(b) + 1, Len(f))

\* ------------------------------------------------------------------------
\* Segment.  A segment value holds the fields of the struct and the state of
\* its two handles: fw is "nil" (read-only segment), "open" or "closed", fr is
\* "open" or "closed", pos is the file position of the fw handle.

EmptyIndex == <<>>

\* The outcome of reading one record from file content f at an offset.
\* err is "nil", "EOF", or "panic" (decode slices b[4:] of a buffer shorter
\* than 4 bytes: a run-time panic).
readRecord(f, offset) ==
  LET hdr == ReadAt(f, recordLenSize, offset)
      fail(e) == [err |-> e, key |-> <<>>, value |-> <<>>, isnil |-> TRUE]
  IN IF hdr.err # "nil" THEN fail(hdr.err)
     ELSE LET blen == Uint32(hdr.data)
              rec == ReadAt(f, blen, offset)
          IN IF rec.err # "nil" THEN fail(rec.err)
             ELSE IF blen < recordLenSize THEN fail("panic")
             ELSE LET kv == decode(rec.data)
                  IN [err |-> "nil", key |-> kv.key, value |-> kv.value,
                      isnil |-> kv.isnil]

\* segment.read on a segment whose file holds f: a closed read handle fails
\* the first ReadAt.
read(s, f, offset) ==
  IF s.fr # "open"
  THEN [err |-> "closed", key |-> <<>>, value |-> <<>>, isnil |-> TRUE]
  ELSE readRecord(f, offset)

\* A replay that keeps the offset of the first record of every key.
RECURSIVE loadIndexKeepFirst(_, _, _)
loadIndexKeepFirst(f, offset, index) ==
  LET r == readRecord(f, offset)
  IN CASE r.err = "nil" ->
            loadIndexKeepFirst(f, offset + recordLen(r.key, r.value),
                               index @@ (r.key :> offset))
       [] r.err = "EOF" -> [err |-> "nil", index |-> index]
       [] OTHER -> [err |-> r.err, index |-> index]

\* segment.loadIndex from a cursor: replays the records of f into the index.
\* The cursor is a local variable; the offset field of the segment is left as
\* it is.  Every round moves the cursor by at least 5, so the replay ends.
RECURSIVE loadIndexFrom(_, _, _)
loadIndexFrom(f, offset, index) ==
  LET r == readRecord(f, offset)
  IN CASE r.err = "nil" ->
            loadIndexFrom(f, offset + recordLen(r.key, r.value),
                          (r.key :> offset) @@ index)
       [] r.err = "EOF" -> [err |-> "nil", index |-> index]
       [] OTHER -> [err |-> r.err, index |-> index]

loadIndex(f) == loadIndexFrom(f, 0, EmptyIndex)

\* An openSegment that opens the write handle of every segment.
openSegmentRW(d, name, writable, frErr) ==
  LET d1 == IF name \notin DOMAIN d THEN (name :> <<>>) @@ d ELSE d
  IN [seg |-> [name |-> name, fw |-> "open",
               fr |-> IF frErr THEN "nil" ELSE "open",
               pos |-> 0, offset |-> 0, index |-> EmptyIndex],
      err |-> IF frErr THEN "EMFILE" ELSE "nil",
      disk |-> d1]

\* openSegment on directory content d: the segment and the error.  A writable
\* segment opens fw with O_CREATE|O_WRONLY (the file is created when absent,
\* kept as it is otherwise, position 0).  os.Open for fr needs the file to
\* exist, and fails as well when frErr tells that the system refuses it (no
\* file descriptor left, say).  The segment is returned with the error, fw
\* open when it was opened before os.Open failed.
openSegment(d, name, writable, frErr) ==
  LET d1 == IF writable /\ name \notin DOMAIN d THEN (name :> <<>>) @@ d ELSE d
      ok == name \in DOMAIN d1 /\ ~frErr
  IN [seg |-> [name |-> name,
               fw |-> IF writable THEN "open" ELSE "nil",
               fr |-> IF ok THEN "open" ELSE "nil",
               pos |-> 0,
               offset |-> 0,
               index |-> EmptyIndex],
      err |-> IF ok THEN "nil"
              ELSE IF name \in DOMAIN d1 THEN "EMFILE" ELSE "ENOENT",
      disk |-> d1]

\* A close that forgets the write handle.
closeReadHandle(s) == [s EXCEPT !.fr = IF @ = "nil" THEN "nil" ELSE "closed"]

\* segment.close: both handles are closed when they are set.
close(s) ==
  [s EXCEPT !.fr = IF @ = "nil" THEN "nil" ELSE "closed",
            !.fw = IF @ = "nil" THEN "nil" ELSE "closed"]

\* ------------------------------------------------------------------------
\* Trunk: the manifest file is absent, or holds a sequence of characters.  A
\* segment name is a sequence of characters; a character is a string of
\* length one.

NL == "\n"

\* bufio.Scanner with the default split function over the characters left in
\* data, line holding the characters of the line read so far: every "\n" ends
\* a token, and so does the end of the file after a non-empty line.
RECURSIVE scanLines(_, _)
scanLines(data, line) ==
  IF data = <<>> THEN (IF line = <<>> THEN <<>> ELSE <<line>>)
  ELSE IF Head(data) = NL THEN <<line>> \o scanLines(Tail(data), <<>>)
  ELSE scanLines(Tail(data), Append(line, Head(data)))

\* readSegmentNames on manifest t.  os.Open fails when the file is absent, and
\* fails for another reason when ioErr tells so (no permission, say).
readSegmentNames(t, ioErr) ==
  IF ioErr THEN [names |-> <<>>, err |-> "EACCES"]
  ELSE IF ~t.exists THEN [names |-> <<>>, err |-> "ENOENT"]
  ELSE [names |-> scanLines(t.data, <<>>), err |-> "nil"]

\* The characters writeSegmentNames writes: segName + "\n" for every name.
RECURSIVE joinLines(_)
joinLines(names) ==
  IF names = <<>> THEN <<>>
  ELSE Head(names) \o <<NL>> \o joinLines(Tail(names))

\* A write of the manifest that stores no name.
writeSegmentNamesNil(t, names) == [exists |-> TRUE, data |-> <<>>]

\* writeSegmentNames on manifest t: the file is opened with
\* O_CREATE|O_WRONLY, so it is created when absent and kept as it is
\* otherwise, and the lines are written from position 0 over what it holds.
writeSegmentNames(t, names) ==
  [exists |-> TRUE,
   data |-> WriteAtPos(IF t.exists THEN t.data ELSE <<>>, 0, joinLines(names))]

\* A test that takes every error for the one of a missing file.
isAnyError(err) == err # "nil"

\* os.IsNotExist(err): the error is the one of a missing file.
isNotExist(err) == err = "ENOENT"

\* The name the segment namer hands out for the first segment of a directory.
segmentNamer == <<"s", "e", "g">>

\* ------------------------------------------------------------------------
\* State.

VARIABLES
  trunk,      \* the manifest file: [exists, data]
  disk,       \* the segment files of the directory: name -> bytes
  durable,    \* what each file held at its last successful fsync
  segments,   \* db.segments: the published list of segments, oldest first
  dbst,       \* "none", "open", "closing" (Close has closed quitc), "closed",
              \* "crashed" (the process died of a panic or a fatal error)
  quit,       \* quitc is closed
  run,        \* the run goroutine: "none", "running", "stopped"
  pc,         \* each Set caller: "idle", "sending" (at actionsc <- f),
              \* "waiting" (at <-errc), "stuck" (at actionsc <- f of a handle
              \* whose run loop has returned: nothing receives any more)
  arg,        \* the key and value of each caller's Set
  exec,       \* the step of each caller's action inside the run loop: "none",
              \* "append" (before fw.Write), "sync" (before fw.Sync), "index"
              \* (the map assignment is under way), "reply" (before errc <-)
  wr,         \* the locals of each executing write: n, err, and where it wrote
  ret,        \* what each caller's last Set returned, "none" while it runs
  nsets, nopens, nfaults,   \* counters that bound the run
  fresh,      \* this session's Open found no manifest
  unclean,    \* some Set so far has returned an error, or was called or in
              \* flight while the database was being closed or was closed
  last,       \* key -> value of the latest Set of this session that returned nil
  prev,       \* last, as it was when the session before this one ended
  nacc,       \* actions accepted by the run loop in this session
  appendLog,  \* the fw.Write calls of this session, in the order they ran
  written,    \* the keys that some Set wrote, or that the directory held at
              \* the start
  leaked,     \* the file handles that an Open which failed left open: pairs
              \* of a segment name and "fr" or "fw"
  openErr,    \* the last Open: the error readSegmentNames gave it (read) and
              \* the error it returned (ret); "none" before the first Open
  codec       \* the data of a codec call (see the codec specification)

vars == <<trunk, disk, durable, segments, dbst, quit, run, pc, arg, exec, wr,
          ret, nsets, nopens, nfaults, fresh, unclean, last, prev, nacc,
          appendLog, written, leaked, openErr, codec>>

NoArg == [key |-> <<>>, value |-> <<>>]
NoWrite == [idx |-> 0, n |-> 0, err |-> "nil", at |-> 0]
\* No codec call is being followed.
NoCodec == [stage |-> "none"]

\* The directory the program starts on: an empty one, or one that holds a
\* manifest of two segments, as the directory testdata/read.db of the tests.
NoTrunk == [exists |-> FALSE, data |-> <<>>]
OldName == <<"o", "l", "d">>
NewName == <<"n", "e", "w">>
DirFresh ==
  [trunk |-> NoTrunk, disk |-> <<>>, keys |-> {}]
DirExisting ==
  [trunk |-> writeSegmentNames(NoTrunk, <<OldName, NewName>>),
   disk |-> (OldName :> (encode(KeyA, ValEmpty) \o encode(KeyEmpty, ValB)))
            @@ (NewName :> (encode(KeyA, ValEmpty) \o encode(KeyA, ValB))),
   keys |-> {KeyA, KeyEmpty}]
Dirs == {DirFresh, DirExisting}

\* The state of the database before the first Open on directory d.
InitOn(d) ==
  /\ trunk = d.trunk /\ disk = d.disk /\ durable = d.disk /\ written = d.keys
  /\ segments = <<>>
  /\ dbst = "none"
  /\ quit = FALSE
  /\ run = "none"
  /\ pc = [c \in Clients |-> "idle"]
  /\ arg = [c \in Clients |-> NoArg]
  /\ exec = [c \in Clients |-> "none"]
  /\ wr = [c \in Clients |-> NoWrite]
  /\ ret = [c \in Clients |-> "none"]
  /\ nsets = 0 /\ nopens = 0 /\ nfaults = 0
  /\ fresh = FALSE
  /\ unclean = FALSE
  /\ last = <<>>
  /\ prev = <<>>
  /\ nacc = 0
  /\ appendLog = <<>>
  /\ leaked = {}
  /\ openErr = [read |-> "none", ret |-> "none"]

Init == (\E d \in Dirs : InitOn(d)) /\ codec = NoCodec

\* ------------------------------------------------------------------------
\* Open.

\* The loop of Open over the names of the manifest, from the i-th name on:
\* openSegment, then loadIndex, then append to ss.  The first failure ends it.
\* failAt is the position of the name whose os.Open fails, 0 for none.  s is
\* the segment the loop variable holds when the loop ends with an error.
RECURSIVE openSegments(_, _, _, _, _)
openSegments(names, i, d, ss, failAt) ==
  IF i > Len(names) THEN [err |-> "nil", ss |-> ss, s |-> <<>>, disk |-> d]
  ELSE LET o == openSegment(d, names[i], i = Len(names), i = failAt)
       IN IF o.err # "nil"
          THEN [err |-> o.err, ss |-> ss, s |-> <<o.seg>>, disk |-> o.disk]
          ELSE LET li == loadIndex(o.disk[names[i]])
               IN IF li.err # "nil"
                  THEN [err |-> li.err, ss |-> ss, s |-> <<o.seg>>,
                        disk |-> o.disk]
                  ELSE openSegments(names, i + 1, o.disk,
                                    Append(ss, [o.seg EXCEPT !.index = li.index]),
                                    failAt)

\* The handles that are open in a sequence of segments.
openHandles(ss) ==
  {<<ss[i].name, "fr">> : i \in {j \in 1..Len(ss) : ss[j].fr = "open"}}
  \cup {<<ss[i].name, "fw">> : i \in {j \in 1..Len(ss) : ss[j].fw = "open"}}

\* What Open does with the segments it has opened when it returns an error:
\* "return nil, err" closes none of them, and nothing refers to them any more.
releaseOnError(ss) == openHandles(ss)

\* Open: reads the manifest and, when there is none, writes one with a new
\* segment name; opens the segments; publishes the list and starts run.
\* A new handle is opened once the handle before it is closed and its run
\* loop has stopped.  A panic ends the process, and its handles with it.
Open ==
  /\ dbst \in {"none", "closed"}
  /\ run \in {"none", "stopped"}
  /\ nopens < MaxOpens
  /\ \E ioErr \in BOOLEAN :
     LET rd == readSegmentNames(trunk, ioErr)
         isNew == isNotExist(rd.err)
         filenames == IF isNew THEN Append(rd.names, segmentNamer) ELSE rd.names
         nf == IF ioErr THEN nfaults + 1 ELSE nfaults
     IN /\ nf <= MaxFaults
        /\ IF ~isNew /\ rd.err # "nil"
           THEN /\ nfaults' = nf
                /\ openErr' = [read |-> rd.err, ret |-> rd.err]
                /\ segments' = <<>>
                /\ dbst' = "none"
                /\ run' = "none"
                /\ fresh' = FALSE
                /\ UNCHANGED <<trunk, disk, durable, leaked, quit>>
           ELSE \E failAt \in 0..Len(filenames) :
                LET o == openSegments(filenames, 1, disk, <<>>, failAt)
                IN /\ failAt > 0 => nf < MaxFaults
                   /\ nfaults' = IF failAt > 0 THEN nf + 1 ELSE nf
                   /\ openErr' = [read |-> rd.err, ret |-> o.err]
                   /\ trunk' = IF isNew THEN writeSegmentNames(trunk, filenames) ELSE trunk
                   /\ disk' = o.disk
                   /\ durable' = [n \in DOMAIN o.disk |->
                                    IF n \in DOMAIN durable THEN durable[n] ELSE <<>>]
                   /\ fresh' = isNew
                   /\ IF o.err = "nil"
                      THEN /\ segments' = o.ss
                           /\ dbst' = "open"
                           /\ run' = "running"
                           /\ quit' = FALSE
                           /\ UNCHANGED leaked
                      ELSE /\ segments' = <<>>
                           /\ dbst' = IF o.err = "panic" THEN "crashed" ELSE "none"
                           /\ run' = "none"
                           /\ leaked' = IF o.err = "panic" THEN {}
                                         ELSE leaked \cup releaseOnError(o.ss \o o.s)
                           /\ UNCHANGED quit
  /\ nopens' = nopens + 1
  /\ prev' = last
  /\ last' = <<>>
  /\ nacc' = 0
  /\ appendLog' = <<>>
  /\ UNCHANGED <<pc, arg, exec, wr, ret, nsets, unclean, written, codec>>

\* ------------------------------------------------------------------------
\* Close and the run loop.

\* Close, first statement: close(db.quitc).
CloseQuit ==
  /\ dbst = "open"
  /\ quit' = TRUE
  /\ dbst' = "closing"
  /\ unclean' = (unclean \/ \E c \in Clients : pc[c] # "idle")
  /\ UNCHANGED <<trunk, disk, durable, segments, run, pc, arg, exec, wr, ret,
                 nsets, nopens, nfaults, fresh, last, prev, nacc,
                 appendLog, written,
                 leaked, openErr, codec>>

\* Close, the loop: every segment of the published list is closed.
CloseSegments ==
  /\ dbst = "closing"
  /\ segments' = [i \in 1..Len(segments) |-> close(segments[i])]
  /\ dbst' = "closed"
  /\ UNCHANGED <<trunk, disk, durable, quit, run, pc, arg, exec, wr, ret,
                 nsets, nopens, nfaults, fresh, unclean, last, prev, nacc,
                 appendLog, written,
                 leaked, openErr, codec>>

\* A loop that starts each action with "go f()" is back at its select at once.
runReadyGo(ex) == TRUE

\* run is at its select when no action is being executed: f() is called in
\* the loop, so the loop does not come back to the select before f returns.
runReady(ex) == \A d \in Clients : ex[d] = "none"

\* run, case <-db.quitc: the loop returns.  The select may take this case
\* once quitc is closed, and may as well take a waiting sender instead.
\* The callers that are sending at that moment, and those that send later,
\* are stuck: the channel has no receiver any more.
RunQuit ==
  /\ dbst # "crashed"
  /\ run = "running"
  /\ quit
  /\ runReady(exec)
  /\ run' = "stopped"
  /\ pc' = [c \in Clients |-> IF pc[c] = "sending" THEN "stuck" ELSE pc[c]]
  /\ arg' = [c \in Clients |-> IF pc[c] = "sending" THEN NoArg ELSE arg[c]]
  /\ UNCHANGED <<trunk, disk, durable, segments, dbst, quit, exec, wr,
                 ret, nsets, nopens, nfaults, fresh, unclean, last, prev, nacc,
                 appendLog, written,
                 leaked, openErr, codec>>

\* ------------------------------------------------------------------------
\* Set.

\* Set, up to the send on actionsc, where the caller blocks.  The callers are
\* interchangeable: c2 is the one that calls while c1 is busy.
SetCall(c, k, v) ==
  /\ dbst \in {"open", "closing", "closed"}
  /\ pc[c] = "idle"
  /\ c = "c1" \/ pc["c1"] # "idle"
  /\ nsets < MaxSets
  /\ pc' = [pc EXCEPT ![c] = IF run = "stopped" THEN "stuck" ELSE "sending"]
  /\ arg' = [arg EXCEPT ![c] = IF run = "stopped" THEN NoArg
                                ELSE [key |-> k, value |-> v]]
  /\ ret' = [ret EXCEPT ![c] = "none"]
  /\ nsets' = nsets + 1
  /\ unclean' = (unclean \/ dbst # "open")
  /\ UNCHANGED <<trunk, disk, durable, segments, dbst, quit, run, exec, wr,
                 nopens, nfaults, fresh, last, prev, nacc, appendLog, written,
                 leaked, openErr, codec>>

\* run, case f := <-db.actionsc: the loop takes the action of one sender and
\* starts to execute it; the sender goes on to wait on its errc.
RunAccept(c) ==
  /\ dbst # "crashed"
  /\ run = "running"
  /\ pc[c] = "sending"
  /\ runReady(exec)
  /\ pc' = [pc EXCEPT ![c] = "waiting"]
  /\ exec' = [exec EXCEPT ![c] = "append"]
  /\ nacc' = nacc + 1
  /\ wr' = [wr EXCEPT ![c] = [idx |-> nacc + 1, n |-> 0, err |-> "nil", at |-> 0]]
  /\ UNCHANGED <<trunk, disk, durable, segments, dbst, quit, run, arg, ret,
                 nsets, nopens, nfaults, fresh, unclean, last, prev, appendLog, written,
                 leaked, openErr, codec>>

\* The segment the action writes to: the last of the published list.
current == segments[Len(segments)]

\* A writer that takes the oldest segment of the list for the current one.
SetOldest(s) == [segments EXCEPT ![1] = s]

\* The list after the writer has updated db.current, the last segment.
SetCurrent(s) == [segments EXCEPT ![Len(segments)] = s]

\* The numbers of bytes a failing fw.Write may have written: none, or all but
\* the last one.
ShortWrites(buf) == {0, Len(buf) - 1}

\* segment.write, s.fw.Write(encode(key, value)): all bytes are written; or the
\* handle is closed and nothing is written; or the write fails after p bytes.
WriteAppend(c) ==
  /\ dbst # "crashed"
  /\ exec[c] = "append"
  /\ LET s == current
         buf == encode(arg[c].key, arg[c].value)
         put(p, e) ==
           /\ disk' = [disk EXCEPT ![s.name] = WriteAtPos(@, s.pos, SubSeq(buf, 1, p))]
           /\ segments' = SetCurrent([s EXCEPT !.pos = @ + p])
           /\ wr' = [wr EXCEPT ![c].n = p, ![c].err = e, ![c].at = s.pos]
           /\ appendLog' = Append(appendLog,
                                  [idx |-> wr[c].idx, who |-> c,
                                   bytes |-> SubSeq(buf, 1, p)])
           /\ written' = written \cup {arg[c].key}
           /\ exec' = [exec EXCEPT ![c] = IF e = "nil" THEN "sync" ELSE "reply"]
     IN \/ /\ s.fw = "open"
           /\ put(Len(buf), "nil")
           /\ UNCHANGED nfaults
        \/ /\ s.fw = "closed"
           /\ wr' = [wr EXCEPT ![c].err = "closed"]
           /\ exec' = [exec EXCEPT ![c] = "reply"]
           /\ UNCHANGED <<disk, segments, appendLog, nfaults, written>>
        \/ /\ s.fw = "open"
           /\ nfaults < MaxFaults
           /\ nfaults' = nfaults + 1
           /\ \E p \in ShortWrites(buf) : put(p, "EIO")
  /\ UNCHANGED <<trunk, durable, dbst, quit, run, pc, arg, ret, nsets, nopens,
                 fresh, unclean, last, prev, nacc,
                 leaked, openErr, codec>>

\* A Sync that reports success and makes nothing durable.
fsyncNothing(dur, name, f) == dur

\* os.File.Sync on the file called name, which holds f: what the durable
\* store holds afterwards.
fsync(dur, name, f) == [dur EXCEPT ![name] = f]

\* segment.write, s.fw.Sync(): the file is made durable; or the handle is
\* closed; or the fsync fails.
WriteSync(c) ==
  /\ dbst # "crashed"
  /\ exec[c] = "sync"
  /\ LET s == current
     IN \/ /\ s.fw = "open"
           /\ durable' = fsync(durable, s.name, disk[s.name])
           /\ exec' = [exec EXCEPT ![c] = "index"]
           /\ UNCHANGED <<wr, nfaults>>
        \/ /\ s.fw = "closed"
           /\ wr' = [wr EXCEPT ![c].err = "closed"]
           /\ exec' = [exec EXCEPT ![c] = "reply"]
           /\ UNCHANGED <<durable, nfaults>>
        \/ /\ s.fw = "open"
           /\ nfaults < MaxFaults
           /\ nfaults' = nfaults + 1
           /\ wr' = [wr EXCEPT ![c].err = "EIO"]
           /\ exec' = [exec EXCEPT ![c] = "reply"]
           /\ UNCHANGED durable
  /\ UNCHANGED <<trunk, disk, segments, dbst, quit, run, pc, arg, ret, nsets,
                 nopens, fresh, unclean, last, prev, nacc, appendLog, written,
                 leaked, openErr, codec>>

\* A map assignment that keeps the entry of a key the index already holds.
indexAssignKeep(index, key, offset) ==
  IF key \in DOMAIN index THEN index ELSE (key :> offset) @@ index

\* s.index[key] = s.offset
indexAssign(index, key, offset) == (key :> offset) @@ index

\* segment.write, the end: the map assignment completes and the running
\* offset moves on by n.
WriteIndex(c) ==
  /\ dbst # "crashed"
  /\ exec[c] = "index"
  /\ LET s == current
     IN segments' = SetCurrent([s EXCEPT
                       !.index = indexAssign(s.index, arg[c].key, s.offset),
                       !.offset = s.offset + wr[c].n])
  /\ exec' = [exec EXCEPT ![c] = "reply"]
  /\ UNCHANGED <<trunk, disk, durable, dbst, quit, run, pc, arg, wr, ret, nsets,
                 nopens, nfaults, fresh, unclean, last, prev, nacc, appendLog, written,
                 leaked, openErr, codec>>

\* An action that hands nil to its caller whatever current.write returned.
writeResultNil(w) == "nil"

\* The error the action hands to its caller: the result of current.write.
writeResult(w) == w.err

\* errc <- current.write(key, value), received by the caller of the action,
\* which returns it from Set.
SetReturn(c) ==
  /\ dbst # "crashed"
  /\ exec[c] = "reply"
  /\ pc[c] = "waiting"
  /\ LET e == writeResult(wr[c])
     IN /\ ret' = [ret EXCEPT ![c] = e]
        /\ unclean' = (unclean \/ e # "nil")
        /\ last' = IF e = "nil" THEN (arg[c].key :> arg[c].value) @@ last ELSE last
  /\ pc' = [pc EXCEPT ![c] = "idle"]
  /\ exec' = [exec EXCEPT ![c] = "none"]
  /\ arg' = [arg EXCEPT ![c] = NoArg]
  /\ wr' = [wr EXCEPT ![c] = NoWrite]
  /\ UNCHANGED <<trunk, disk, durable, segments, dbst, quit, run, nsets,
                 nopens, nfaults, fresh, prev, nacc, appendLog, written,
                 leaked, openErr, codec>>

\* ------------------------------------------------------------------------
\* Get.

NotFound == [err |-> "ErrKeyNotFound", value |-> <<>>, isnil |-> TRUE]
Fatal == [err |-> "fatal", value |-> <<>>, isnil |-> TRUE]

\* value, err of Get from the record read at the offset the index gave.
getRead(s, offset) ==
  LET r == read(s, disk[s.name], offset)
  IN [err |-> r.err, value |-> r.value, isnil |-> r.isnil]

\* A scan of i segments that starts at the oldest one: ss[Len(ss)-i+1] first.
RECURSIVE getFromOldest(_, _, _)
getFromOldest(ss, i, key) ==
  IF i = 0 THEN NotFound
  ELSE LET j == Len(ss) - i + 1
       IN IF key \in DOMAIN ss[j].index
          THEN getRead(ss[j], ss[j].index[key])
          ELSE getFromOldest(ss, i - 1, key)

\* The loop of Get over ss[i], ss[i-1], ..., ss[1]: the first segment whose
\* index holds the key answers.
RECURSIVE getFrom(_, _, _)
getFrom(ss, i, key) ==
  IF i = 0 THEN NotFound
  ELSE IF key \in DOMAIN ss[i].index
       THEN getRead(ss[i], ss[i].index[key])
       ELSE getFrom(ss, i - 1, key)

\* The actions whose map assignment s.index[key] = s.offset is under way.
Racing == {c \in Clients : exec[c] = "index"}

\* What a lookup of key in the index of s may give while the run loop assigns
\* index[kw] without synchronisation (a data race on a Go map): the entry as
\* it was, and for kw itself also the new entry, or the key with the zero
\* offset of a slot whose value is not stored yet.
raceLookups(s, key, kw) ==
  {[ok |-> key \in DOMAIN s.index,
    offset |-> IF key \in DOMAIN s.index THEN s.index[key] ELSE 0]}
  \cup (IF key = kw
        THEN {[ok |-> TRUE, offset |-> s.offset], [ok |-> TRUE, offset |-> 0]}
        ELSE {})

\* The results of a Get that is sent to the run loop as an action, like a Set:
\* there is none while the loop executes another action or has stopped.
GetOutcomesViaRun(key) ==
  IF run = "running" /\ runReady(exec)
  THEN {getFrom(segments, Len(segments), key)}
  ELSE {}

\* The results Get(key) may return in this state.  Without a racing map
\* assignment there is one.  With one, the runtime may also stop the process
\* with "concurrent map read and map write".
GetOutcomes(key) ==
  IF Racing = {} \/ segments = <<>>
  THEN {getFrom(segments, Len(segments), key)}
  ELSE {Fatal} \cup
       {IF l.ok THEN getRead(current, l.offset)
        ELSE getFrom(segments, Len(segments) - 1, key) :
          l \in UNION {raceLookups(current, key, arg[c].key) : c \in Racing}}

\* Get changes nothing in the database; a panic in read or the fatal error
\* of the runtime ends the process.
Get(k) ==
  /\ dbst \in {"open", "closing", "closed"}
  /\ \E r \in GetOutcomes(k) :
       dbst' = IF r.err \in {"panic", "fatal"} THEN "crashed" ELSE dbst
  /\ UNCHANGED <<trunk, disk, durable, segments, quit, run, pc, arg, exec, wr,
                 ret, nsets, nopens, nfaults, fresh, unclean, last, prev, nacc,
                 appendLog, written,
                 leaked, openErr, codec>>

\* ------------------------------------------------------------------------
\* Specification.

Next ==
  \/ Open
  \/ CloseQuit
  \/ CloseSegments
  \/ RunQuit
  \/ \E c \in Clients, kv \in Puts : SetCall(c, kv[1], kv[2])
  \/ \E c \in Clients : RunAccept(c)
  \/ \E c \in Clients : WriteAppend(c)
  \/ \E c \in Clients : WriteSync(c)
  \/ \E c \in Clients : WriteIndex(c)
  \/ \E c \in Clients : SetReturn(c)
  \/ \E k \in Keys : Get(k)

Spec == Init /\ [][Next]_vars

\* Weak fairness of every step: the scheduler runs each goroutine that can
\* take a step, and a select with a ready case takes one.
Fairness ==
  /\ WF_vars(RunQuit)
  /\ WF_vars(CloseSegments)
  /\ \A c \in Clients :
       /\ WF_vars(RunAccept(c))
       /\ WF_vars(WriteAppend(c))
       /\ WF_vars(WriteSync(c))
       /\ WF_vars(WriteIndex(c))
       /\ WF_vars(SetReturn(c))

FairSpec == Spec /\ Fairness

\* ------------------------------------------------------------------------
\* The codec on its own: encode, decode and segment.read applied to keys,
\* values and stored records drawn from small sets.  The database is not
\* opened in this specification.

\* The longest key, value and record body, in bytes.
MaxBytes == 2

\* The sequences over S of at most n elements.
SeqsUpTo(S, n) == UNION {[1..m -> S] : m \in 0..n}

\* Keys with and without the delimiter byte; values with and without it.
CodecKeys == SeqsUpTo({0, 1}, MaxBytes)
CodecValues == SeqsUpTo({0, 2}, MaxBytes)

\* Records of a segment file whose length field is right and whose body holds
\* no delimiter.  encode writes no such record; a file comes to hold one when
\* a Write that failed part-way is followed by another Write.
BrokenRecords ==
  {PutUint32(recordLenSize + Len(body)) \o body :
     body \in SeqsUpTo({1, 2}, MaxBytes)}

CodecCall(stage, key, value, buf, out) ==
  [stage |-> stage, key |-> key, value |-> value, buf |-> buf, out |-> out]

NoOut == [err |-> "none", key |-> <<>>, value |-> <<>>, isnil |-> TRUE]

\* The most records of a segment file that loadIndex is applied to.
MaxRecords == 2

\* The lists of at most MaxRecords (key, value) pairs, keys without 0x00.
RecordLists == SeqsUpTo(PlainKeys \X Values, MaxRecords)

\* The file that holds the records of a list, in order: what successive
\* successful writes of the pairs leave in an empty file.
RECURSIVE fileOf(_)
fileOf(recs) ==
  IF recs = <<>> THEN <<>>
  ELSE fileOf(SubSeq(recs, 1, Len(recs) - 1))
       \o encode(recs[Len(recs)][1], recs[Len(recs)][2])

\* The numbers of bytes that can be missing at the end of the file of a
\* list so that it ends inside its last record.
Cuts(recs) ==
  IF recs = <<>> THEN {}
  ELSE 1..(Len(encode(recs[Len(recs)][1], recs[Len(recs)][2])) - 1)

\* loadIndex is applied to the file of recs less its last cut bytes.
FileCall(stage, recs, cut, out) ==
  [stage |-> stage, recs |-> recs, cut |-> cut,
   buf |-> SubSeq(fileOf(recs), 1, Len(fileOf(recs)) - cut), out |-> out]

CodecInit ==
  /\ InitOn(DirFresh)
  /\ codec \in {CodecCall("input", k, v, <<>>, NoOut) :
                  k \in CodecKeys, v \in CodecValues}
               \cup {CodecCall("stored", <<>>, <<>>, b, NoOut) :
                       b \in BrokenRecords}
               \cup {FileCall("file", recs, 0, NoOut) : recs \in RecordLists}
               \cup UNION {{FileCall("file", recs, n, NoOut) : n \in Cuts(recs)} :
                             recs \in RecordLists}

\* b := encode(key, value)
Encode ==
  /\ codec.stage = "input"
  /\ codec' = [codec EXCEPT !.stage = "encoded",
                            !.buf = encode(codec.key, codec.value)]
  /\ UNCHANGED <<trunk, disk, durable, segments, dbst, quit, run, pc, arg,
                 exec, wr, ret, nsets, nopens, nfaults, fresh, unclean, last,
                 prev, nacc, appendLog, written, leaked, openErr>>

\* key, value := decode(b)
Decode ==
  /\ codec.stage = "encoded"
  /\ LET kv == decode(codec.buf)
     IN codec' = [codec EXCEPT !.stage = "decoded",
                               !.out = [err |-> "nil", key |-> kv.key,
                                        value |-> kv.value, isnil |-> kv.isnil]]
  /\ UNCHANGED <<trunk, disk, durable, segments, dbst, quit, run, pc, arg,
                 exec, wr, ret, nsets, nopens, nfaults, fresh, unclean, last,
                 prev, nacc, appendLog, written, leaked, openErr>>

\* The encoded record is what a segment file holds at offset 0.
Store ==
  /\ codec.stage = "encoded"
  /\ codec' = [codec EXCEPT !.stage = "stored"]
  /\ UNCHANGED <<trunk, disk, durable, segments, dbst, quit, run, pc, arg,
                 exec, wr, ret, nsets, nopens, nfaults, fresh, unclean, last,
                 prev, nacc, appendLog, written, leaked, openErr>>

\* key, value, err := s.read(0) on the file that holds the record.
Read ==
  /\ codec.stage = "stored"
  /\ codec' = [codec EXCEPT !.stage = "read", !.out = readRecord(codec.buf, 0)]
  /\ UNCHANGED <<trunk, disk, durable, segments, dbst, quit, run, pc, arg,
                 exec, wr, ret, nsets, nopens, nfaults, fresh, unclean, last,
                 prev, nacc, appendLog, written, leaked, openErr>>

\* err := s.loadIndex() on a segment with an empty index whose file holds
\* codec.buf.
LoadIndex ==
  /\ codec.stage = "file"
  /\ codec' = [codec EXCEPT !.stage = "loaded", !.out = loadIndex(codec.buf)]
  /\ UNCHANGED <<trunk, disk, durable, segments, dbst, quit, run, pc, arg,
                 exec, wr, ret, nsets, nopens, nfaults, fresh, unclean, last,
                 prev, nacc, appendLog, written, leaked, openErr>>

CodecNext == Encode \/ Decode \/ Store \/ Read \/ LoadIndex

CodecSpec == CodecInit /\ [][CodecNext]_vars

\* ------------------------------------------------------------------------
\* The trunk on its own: writeSegmentNames followed by readSegmentNames, on
\* a directory whose manifest is absent or was written before.  The database
\* is not opened in this specification.

\* The most names of a manifest.
MaxNames == 2

\* Segment names of one and of two characters.
TrunkNames == {<<"a">>, <<"b", "c">>}

NameLists == SeqsUpTo(TrunkNames, MaxNames)

\* The manifests a directory can hold before the call: none, or the one an
\* earlier writeSegmentNames has left.
Manifests == {NoTrunk} \cup {writeSegmentNames(NoTrunk, ns) : ns \in NameLists}

TrunkCall(stage, names, out) == [stage |-> stage, names |-> names, out |-> out]

TrunkInit ==
  /\ \E t \in Manifests : InitOn([trunk |-> t, disk |-> <<>>, keys |-> {}])
  /\ codec \in {TrunkCall("names", ns, NoOut) : ns \in NameLists}

\* err := writeSegmentNames(path, names), without a failure of the system.
WriteNames ==
  /\ codec.stage = "names"
  /\ trunk' = writeSegmentNames(trunk, codec.names)
  /\ codec' = [codec EXCEPT !.stage = "written"]
  /\ UNCHANGED <<disk, durable, segments, dbst, quit, run, pc, arg,
                 exec, wr, ret, nsets, nopens, nfaults, fresh, unclean, last,
                 prev, nacc, appendLog, written, leaked, openErr>>

\* names, err := readSegmentNames(path)
ReadNames ==
  /\ codec.stage = "written"
  /\ codec' = [codec EXCEPT !.stage = "listed",
                            !.out = readSegmentNames(trunk, FALSE)]
  /\ UNCHANGED <<trunk, disk, durable, segments, dbst, quit, run, pc, arg,
                 exec, wr, ret, nsets, nopens, nfaults, fresh, unclean, last,
                 prev, nacc, appendLog, written, leaked, openErr>>

TrunkNext == WriteNames \/ ReadNames

TrunkSpec == TrunkInit /\ [][TrunkNext]_vars

\* ------------------------------------------------------------------------
\* Properties.

OkResult(v) == [err |-> "nil", value |-> v, isnil |-> FALSE]

\* Every Set that was called has returned.
AllReturned == \A c \in Clients : pc[c] = "idle"

\* The session was opened on an empty directory, Close has not been called
\* and no Set has failed.
CleanFreshSession == dbst = "open" /\ fresh /\ ~unclean

\* C1: in a session on a freshly created database in which every Set returned
\* nil, a Get issued after the last Set has returned gives, for every key
\* without a 0x00 byte that was set, the value of the latest Set of that key
\* and a nil error.
C1_LastWriteWins ==
  (CleanFreshSession /\ AllReturned) =>
    \A k \in PlainKeys \cap DOMAIN last : GetOutcomes(k) = {OkResult(last[k])}

\* C1 witness: KeyA was set to the empty value and then to ValB, both Sets
\* have returned nil, and Get(KeyA) gives ValB.
C1_Witness ==
  /\ CleanFreshSession /\ AllReturned
  /\ Len(appendLog) = 2
  /\ appendLog[1].bytes = encode(KeyA, ValEmpty)
  /\ appendLog[2].bytes = encode(KeyA, ValB)
  /\ KeyA \in DOMAIN last /\ last[KeyA] = ValB
  /\ OkResult(ValB) \in GetOutcomes(KeyA)

\* No Set has been called in this session: none is queued or running, and the
\* run loop has accepted none.
NoSetYet == nacc = 0 /\ \A c \in Clients : pc[c] \in {"idle", "stuck"}

\* C2: persistence across reopen.  In a session in which no Set has been
\* called yet, Get gives, for every key without a 0x00 byte that was set with
\* success in the session before, the value of its latest Set there.  Stated
\* for the runs in which every Set returned nil before Close was called.
C2_Persistence ==
  (dbst = "open" /\ NoSetYet /\ ~unclean) =>
    \A k \in PlainKeys \cap DOMAIN prev : GetOutcomes(k) = {OkResult(prev[k])}

\* C3: records are never updated in place.  No step changes a byte that a
\* segment file already holds: a file only grows at its end.
C3_AppendOnly ==
  [][\A n \in DOMAIN disk :
       /\ n \in DOMAIN disk'
       /\ Len(disk'[n]) >= Len(disk[n])
       /\ SubSeq(disk'[n], 1, Len(disk[n])) = disk[n]]_vars

\* C4: Get of a key that no Set ever wrote, and that the directory did not
\* hold at the start, returns ErrKeyNotFound and a nil value.  Stated for the
\* states in which no map assignment is under way, of the runs in which every
\* Set returned nil before Close was called.
C4_NotFound ==
  (dbst \in {"open", "closing", "closed"} /\ Racing = {} /\ ~unclean) =>
    \A k \in Keys \ written : GetOutcomes(k) = {NotFound}

\* Segment i of the published list holds key k with value v: its index has
\* k, and the record of its file at that offset is (k, v).
HoldsValue(i, k, v) ==
  /\ k \in DOMAIN segments[i].index
  /\ LET r == readRecord(disk[segments[i].name], segments[i].index[k])
     IN r.err = "nil" /\ r.key = k /\ r.value = v /\ ~r.isnil

\* C5: newest segment wins.  When segment i holds key k with value v and no
\* newer segment has k in its index, Get(k) returns v, whatever the segments
\* older than i hold.  Stated for the states in which the read handles are
\* open and no map assignment is under way.
C5_NewestSegmentWins ==
  (dbst \in {"open", "closing"} /\ Racing = {}) =>
    \A k \in Keys, v \in Values, i \in 1..Len(segments) :
      (/\ HoldsValue(i, k, v)
       /\ \A m \in (i + 1)..Len(segments) : k \notin DOMAIN segments[m].index)
      => GetOutcomes(k) = {OkResult(v)}

\* C5 witness: the older segment holds KeyA with the empty value, the newer
\* one holds KeyA with ValB, and Get(KeyA) gives ValB.
C5_Witness ==
  /\ dbst = "open" /\ Racing = {}
  /\ Len(segments) = 2
  /\ HoldsValue(1, KeyA, ValEmpty)
  /\ HoldsValue(2, KeyA, ValB)
  /\ GetOutcomes(KeyA) = {OkResult(ValB)}

\* The bytes of the Write calls of a log, one after the other.
RECURSIVE ConcatBytes(_)
ConcatBytes(log) ==
  IF log = <<>> THEN <<>> ELSE log[1].bytes \o ConcatBytes(Tail(log))

\* The callers whose action is being executed by the run loop.
Executing == {c \in Clients : exec[c] # "none"}

\* C6: single writer.  At most one action is being executed at any moment;
\* the Write calls run in the order in which the run loop accepted their
\* actions; and what the writable handle has written so far is the bytes of
\* these Write calls one after the other, none inside another.
C6_SingleWriter ==
  /\ Cardinality(Executing) <= 1
  /\ \A i \in 1..(Len(appendLog) - 1) : appendLog[i].idx < appendLog[i + 1].idx
  /\ segments # <<>> =>
       /\ current.pos = Len(ConcatBytes(appendLog))
       /\ SubSeq(disk[current.name], 1, current.pos) = ConcatBytes(appendLog)

\* C6 witness: c1 and c2 were both sending; the loop accepted c2 first and
\* then c1, and the file holds the record of c2 followed by that of c1.
C6_Witness ==
  /\ Len(appendLog) = 2
  /\ appendLog[1].who = "c2" /\ appendLog[2].who = "c1"
  /\ appendLog[1].bytes # appendLog[2].bytes
  /\ Len(appendLog[1].bytes) > 0 /\ Len(appendLog[2].bytes) > 0
  /\ nfaults = 0
  /\ disk[current.name] = appendLog[1].bytes \o appendLog[2].bytes

\* C7: every Set call that was started, before, during or after a Close,
\* returns to its caller in the end.
C7_SetReturns == \A c \in Clients : (pc[c] # "idle") ~> (pc[c] = "idle")

\* The values a Get of key k may return while Sets are in flight: the value of
\* the latest Set of k that has returned (ErrKeyNotFound when there is none),
\* or the value of a Set of k that is being executed.
OldOrNew(k) ==
  (IF k \in DOMAIN last THEN {OkResult(last[k])} ELSE {NotFound})
  \cup {OkResult(arg[c].value) : c \in {d \in Executing : arg[d].key = k}}

\* C8: a Get that runs concurrently with a Set of the same key returns the old
\* value, the new value, or ErrKeyNotFound when the key was never written, and
\* nothing else.  Stated for the session on a freshly created database, before
\* Close is called, with no failed write.
C8_NoTornRead ==
  (CleanFreshSession /\ nfaults = 0) =>
    \A k \in PlainKeys : GetOutcomes(k) \subseteq OldOrNew(k)

\* The record of the action of c is in the durable store: the bytes that its
\* Write placed in the file are there at the same place.
RecordDurable(c) ==
  LET buf == encode(arg[c].key, arg[c].value)
      dur == durable[current.name]
  IN /\ wr[c].n = Len(buf)
     /\ Len(dur) >= wr[c].at + wr[c].n
     /\ SubSeq(dur, wr[c].at + 1, wr[c].at + wr[c].n) = buf

\* C9: durability before acknowledgment.  When the action of a caller is about
\* to hand nil to the caller, its record has been written to the active
\* segment's file and the fsync that followed has made it durable.
C9_DurableBeforeAck ==
  \A c \in Clients :
    (exec[c] = "reply" /\ writeResult(wr[c]) = "nil") => RecordDurable(c)

\* C9 witness: the write of c1 is complete and durable, and the action is
\* about to send nil to c1, which waits for it.
C9_Witness ==
  /\ exec["c1"] = "reply" /\ pc["c1"] = "waiting"
  /\ writeResult(wr["c1"]) = "nil"
  /\ wr["c1"].n = Len(encode(arg["c1"].key, arg["c1"].value))
  /\ RecordDurable("c1")

HasHandle == dbst \in {"open", "closing", "closed"}

\* C11: Get never waits for the writer.  In every state in which the program
\* holds a handle, whatever the run loop is doing (at its select, in Write, in
\* Sync, in the map assignment, in the reply, stopped), a Get of every key can
\* take its step: it has an outcome, which is a value or an error returned by
\* Get or the end of the process, never a wait.
C11_GetNeverWaits ==
  HasHandle => \A k \in Keys :
    /\ GetOutcomes(k) # {}
    /\ \A r \in GetOutcomes(k) : r.err \in {"nil", "ErrKeyNotFound", "closed",
                                              "EOF", "panic", "fatal"}

\* C11 witness: the run loop is inside the write of c1, before Sync, and a
\* Get of the key being written can complete; it gives ErrKeyNotFound here.
C11_Witness ==
  /\ dbst = "open" /\ fresh
  /\ exec["c1"] = "sync" /\ arg["c1"].key = KeyA
  /\ GetOutcomes(KeyA) = {NotFound}

\* No handle of a segment of the published list is open.
AllHandlesClosed ==
  \A i \in 1..Len(segments) :
    segments[i].fr # "open" /\ segments[i].fw # "open"

\* C12: after Close has returned, both handles of every segment of the
\* published list are closed; the run loop stops in the end (unless the
\* process dies first), and once it has stopped no action is being executed.
C12_CloseStops ==
  /\ [](dbst = "closed" => AllHandlesClosed)
  /\ [](run = "stopped" => \A c \in Clients : exec[c] = "none")
  /\ (dbst = "closed") ~> (run = "stopped" \/ dbst = "crashed")

\* C12 witness: Close has returned on a database of two segments, the run loop
\* has stopped, and the read handles and the write handle are closed.
C12_Witness ==
  /\ dbst = "closed" /\ run = "stopped"
  /\ Len(segments) = 2
  /\ segments[1].fr = "closed" /\ segments[1].fw = "nil"
  /\ segments[2].fr = "closed" /\ segments[2].fw = "closed"
  /\ \A c \in Clients : exec[c] = "none"

\* A step is a call of Open in which no system call was made to fail.
OpenStep == nopens' = nopens + 1 /\ nfaults' = nfaults

IndexLoaded(s, f) ==
  /\ s.index = loadIndex(f).index
  /\ \A k \in DOMAIN s.index :
       LET r == readRecord(f, s.index[k]) IN r.err = "nil" /\ r.key = k
  /\ (s.index = EmptyIndex) <=> (readRecord(f, 0).err # "nil")

C15_AllOrNothing == leaked = {}

\* The sequence holds no 0x00 byte.
NulFree(b) == \A i \in 1..Len(b) : b[i] # kvDelimeter

\* C16: codec round trip.  For every key without a 0x00 byte (the empty key
\* too) and every value (empty, or with 0x00 bytes), decode(encode(key,
\* value)) is (key, value); and for every key, decode splits the bytes after
\* the length at their first 0x00.
C16_RoundTrip ==
  codec.stage = "decoded" =>
    /\ NulFree(codec.key) =>
         /\ codec.out.key = codec.key
         /\ codec.out.value = codec.value
         /\ ~codec.out.isnil
    /\ NulFree(codec.out.key)
    /\ codec.out.key \o <<kvDelimeter>> \o codec.out.value
         = SubSeq(codec.buf, recordLenSize + 1, Len(codec.buf))

\* C16 witness: a key of one byte and a value that holds a 0x00 byte have
\* gone through encode and decode and come back as they were.
C16_Witness ==
  /\ codec.stage = "decoded"
  /\ codec.key = <<1>> /\ codec.value = <<0, 2>>
  /\ codec.buf = <<8, 0, 0, 0, 1, 0, 0, 2>>
  /\ codec.out.key = <<1>> /\ codec.out.value = <<0, 2>>

\* C17: the buffer of encode(k, v) starts with 4 + len(k) + 1 + len(v) as a
\* little-endian number of 4 bytes, is that many bytes long, and goes on with
\* the bytes of the key, one 0x00 and the bytes of the value; recordLen(k, v)
\* is the length of the buffer.
C17_EncodeLayout ==
  codec.stage \in {"encoded", "decoded"} =>
    LET n == 4 + Len(codec.key) + 1 + Len(codec.value)
        b == codec.buf
    IN /\ Len(b) = n
       /\ \A i \in 1..4 : b[i] \in 0..255
       /\ b[1] + 256 * b[2] + 65536 * b[3] + 16777216 * b[4] = n
       /\ SubSeq(b, 5, 4 + Len(codec.key)) = codec.key
       /\ b[5 + Len(codec.key)] = 0
       /\ SubSeq(b, 6 + Len(codec.key), n) = codec.value
       /\ recordLen(codec.key, codec.value) = Len(b)

\* C17 witness: the record of a two-byte key and a one-byte value.
C17_Witness ==
  /\ codec.stage = "encoded"
  /\ codec.key = <<1, 1>> /\ codec.value = <<2>>
  /\ codec.buf = <<8, 0, 0, 0, 1, 1, 0, 2>>

\* C18: when the bytes after the length of a stored record hold no 0x00,
\* reading the record reports an error.
C18_DecodeError ==
  (/\ codec.stage = "read"
   /\ NulFree(SubSeq(codec.buf, recordLenSize + 1, Len(codec.buf))))
    => codec.out.err # "nil"

\* C19: recovery idempotence.  When a database is closed and opened again,
\* every segment gets the index it had in memory before the Close.  Stated
\* for runs in which every Set returned nil, none was in flight at a Close,
\* and no key holds a 0x00 byte.
C19_RecoveryIdempotent ==
  [][(/\ OpenStep /\ dbst = "closed" /\ dbst' = "open"
      /\ ~unclean /\ written \subseteq PlainKeys) =>
       /\ Len(segments') = Len(segments)
       /\ \A i \in 1..Len(segments) :
            segments'[i].index = segments[i].index]_vars

\* C20: segment index invariant.  Between two writes on the active segment,
\* every key of the index maps to an offset where the file holds a complete
\* record of that key, and the index is what the replay of the file gives:
\* every key that has a record is in it, with the offset of its last record.
\* Stated for the first session on a freshly created database and for keys
\* without a 0x00 byte.
C20_IndexInvariant ==
  (/\ dbst = "open" /\ fresh /\ nopens = 1
   /\ Executing = {} /\ written \subseteq PlainKeys) =>
    LET s == current
        f == disk[s.name]
    IN /\ \A k \in DOMAIN s.index :
            LET r == readRecord(f, s.index[k])
            IN r.err = "nil" /\ r.key = k /\ ~r.isnil
       /\ s.index = loadIndex(f).index

\* C21: a successful segment.write(k, v) on a segment whose running offset is
\* o appends exactly encode(k, v) at o, the end of the file, sets index[k] to
\* o, moves the running offset on by the length of the record, leaves every
\* other index entry alone, and read(o) then returns (k, v). Stated for keys
\* without a 0x00 byte, the empty key and the empty value included.
C21_WriteEffect ==
  [][\A c \in Clients :
       (exec[c] = "index" /\ exec'[c] = "reply" /\ NulFree(arg[c].key)) =>
         LET s == current
             t == current'
             k == arg[c].key
             buf == encode(k, arg[c].value)
             f == disk'[s.name]
             r == readRecord(f, s.offset)
         IN /\ Len(f) = s.offset + Len(buf)
            /\ SubSeq(f, s.offset + 1, Len(f)) = buf
            /\ t.index[k] = s.offset
            /\ t.offset = s.offset + Len(buf)
            /\ \A j \in DOMAIN s.index \ {k} :
                 j \in DOMAIN t.index /\ t.index[j] = s.index[j]
            /\ DOMAIN t.index = DOMAIN s.index \cup {k}
            /\ r.err = "nil" /\ r.key = k /\ r.value = arg[c].value]_vars

\* C22: the running offset of the writable segment equals the position at
\* which the next write lands, which is the length of the file: right after
\* Open, also for a segment that already holds records, and after every write,
\* whether it succeeded or failed.
C22_OffsetIsFileEnd ==
  (dbst = "open" /\ Executing = {}) =>
    /\ current.offset = current.pos
    /\ current.offset = Len(disk[current.name])

\* C23: a Set whose append or fsync fails does no harm to later operations:
\* after it, every Set(k2, v2) that succeeds is followed by Get(k2) returning
\* v2, and a key no successful Set has written is still not found. Stated for
\* the first session on a freshly created database in which every Set has
\* returned and no key holds a 0x00 byte.
C23_FailedSetHarmless ==
  (/\ dbst = "open" /\ fresh /\ nopens = 1
   /\ AllReturned /\ written \subseteq PlainKeys) =>
    \A k \in PlainKeys :
      GetOutcomes(k) = IF k \in DOMAIN last THEN {OkResult(last[k])}
                       ELSE {NotFound}

\* The offset of record i in the file of recs.
recordOffset(recs, i) == Len(fileOf(SubSeq(recs, 1, i - 1)))

\* The place of the last record of key k in recs.
lastRecordOf(recs, k) ==
  CHOOSE i \in 1..Len(recs) :
    recs[i][1] = k /\ \A j \in (i + 1)..Len(recs) : recs[j][1] # k

\* C24: on a file that is a sequence of whole records, loadIndex returns nil
\* when it reaches the end of the file at a record boundary, and the index
\* then holds, for every key that has a record, the offset of its last
\* record, and no other key.
C24_LoadIndexWellFormed ==
  (codec.stage = "loaded" /\ codec.cut = 0) =>
    LET recs == codec.recs
        keys == {recs[i][1] : i \in 1..Len(recs)}
    IN /\ codec.out.err = "nil"
       /\ DOMAIN codec.out.index = keys
       /\ \A k \in keys :
            codec.out.index[k] = recordOffset(recs, lastRecordOf(recs, k))

\* loadIndex has replayed a file in which a key has two records.
C24_Witness ==
  /\ codec.stage = "loaded" /\ codec.cut = 0
  /\ Len(codec.recs) = 2 /\ codec.recs[1][1] = codec.recs[2][1]
  /\ codec.out.err = "nil"
  /\ codec.out.index[codec.recs[2][1]] = Len(codec.buf) -
       Len(encode(codec.recs[2][1], codec.recs[2][2]))

\* C25: on a file that ends inside a record, in its length field or in its
\* body, loadIndex returns an error; only the end of the file at a record
\* boundary ends the replay with nil.
C25_TruncatedFileFails ==
  (codec.stage = "loaded" /\ codec.cut > 0) => codec.out.err # "nil"

\* C26: the segment list of an open database is set by Open alone.  A step
\* of Set, Get or Close leaves the number, the order and the names of its
\* segments as they are, and leaves the file, the index and the offset of
\* every segment but the last as they are.
C26_SegmentsFixed ==
  [][(nopens' = nopens /\ segments # <<>>) =>
       /\ Len(segments') = Len(segments)
       /\ \A i \in 1..Len(segments) : segments'[i].name = segments[i].name
       /\ \A i \in 1..(Len(segments) - 1) :
            /\ segments'[i].index = segments[i].index
            /\ segments'[i].offset = segments[i].offset
            /\ disk'[segments[i].name] = disk[segments[i].name]
       /\ DOMAIN disk' = DOMAIN disk]_vars

\* A database of two segments after a successful Set and a Close: the record
\* went to the second file, the first file and its index are as Open found
\* them.
C26_Witness ==
  /\ dbst = "closed" /\ Len(segments) = 2 /\ last # <<>>
  /\ segments[1].name # segments[2].name
  /\ disk[segments[1].name] = DirExisting.disk[segments[1].name]
  /\ segments[1].index = loadIndex(disk[segments[1].name]).index
  /\ disk[segments[2].name] # DirExisting.disk[segments[2].name]

\* C27: readSegmentNames after writeSegmentNames(names) returns exactly
\* names, in order, whatever the manifest held before the write, a longer
\* manifest included.
C27_ManifestRoundTrip ==
  codec.stage = "listed" =>
    codec.out.err = "nil" /\ codec.out.names = codec.names

\* C28: Open takes the directory for a new database only when the read of
\* the manifest fails because the file does not exist.  When the read fails
\* for another reason, Open returns that error, writes no manifest, creates
\* and opens no segment, and starts no writer loop.
C28_OpenReadFailure ==
  [][(nopens' = nopens + 1) =>
       /\ (trunk' # trunk) => (~trunk.exists /\ openErr'.read = "ENOENT")
       /\ (openErr'.read \notin {"nil", "ENOENT"}) =>
            /\ openErr'.ret = openErr'.read
            /\ trunk' = trunk /\ disk' = disk
            /\ segments' = <<>> /\ leaked' = leaked
            /\ dbst' = "none" /\ run' = "none"]_vars

\* An Open on the empty directory whose read of the manifest was refused:
\* the error came back, and the directory is still empty.
C28_Witness ==
  /\ nopens = 1 /\ dbst = "none"
  /\ openErr = [read |-> "EACCES", ret |-> "EACCES"]
  /\ trunk = NoTrunk /\ disk = <<>> /\ segments = <<>> /\ leaked = {}

\* C29: the writer loop has stopped before Close closes the handles of the
\* segments.  Once Close has closed them the run loop is not running and
\* executes no action, and no segment.write runs, or has run, on a write
\* handle that Close had closed.
C29_WriterStoppedBeforeClose ==
  /\ dbst = "closed" => (run = "stopped" /\ Executing = {})
  /\ \A c \in Clients :
       /\ exec[c] \in {"append", "sync", "index"} => current.fw = "open"
       /\ wr[c].err # "closed"

\* The latest successful Set of every key, over this session and the one
\* before it.
known == last @@ prev

\* C30: no phantom keys.  Get(k) succeeds only for a key k that some
\* successful Set had for its key, and then returns the value of the latest
\* such Set, for keys with a 0x00 byte as for the others, in the session of
\* the Set and in the session after it.  Stated for a database created on an
\* empty directory, with no failure of the system and no Set that overlapped
\* Close, in the states in which every Set has returned.
C30_NoPhantomKeys ==
  (/\ dbst = "open" /\ AllReturned /\ ~unclean
   /\ nfaults = 0 /\ nopens <= 2 /\ DOMAIN disk = {segmentNamer}) =>
    \A k \in Keys :
      \A r \in GetOutcomes(k) :
        r.err = "nil" => (k \in DOMAIN known /\ r.value = known[k] /\ ~r.isnil)

====
